---- MODULE Spec2Model ----
(***************************************************************************)
(* Certificate issuance workflow of the backend service layer              *)
(* (services/certificate.service.js, createCertificate) together with the  *)
(* Ledger Gateway (soroban.service) and the three collections Certificate, *)
(* Web3Tx (TransactionRecord) and CertificateEvent (AuditEvent).           *)
(*                                                                         *)
(* Every await of createCertificate is one step of the call: validation,   *)
(* readDocument, storeDocument, Certificate.create, Web3Tx.create,         *)
(* CertificateEvent.create.  The outcomes of the collaborators (ledger     *)
(* results, receipts, database failures) are chosen nondeterministically.  *)
(***************************************************************************)
EXTENDS Integers, Sequences, FiniteSets, TLC

(* ------------------------------ bounds -------------------------------- *)

\* number of createCertificate calls served in one run
MaxCalls == 3

\* number of calls of the other operations served in one run
MaxOps == 3

\* pages and page sizes asked of getAllCertificates
MaxPage == 2
MaxLimit == 2

\* user requests served in one behaviour
MaxUserOps == 3

(* ------------------------- values of the domain ----------------------- *)

\* request slots: the calls that may be in flight
CallIds == {"r1", "r2"}

\* an absent value (undefined / null)
Undefined == "undefined"

\* the named inputs of createCertificate that the caller may leave out
Fields == {"certificateName", "companyId", "subject", "metadataHash", "requestedByUserId"}

\* content hashes a caller may submit
Hashes == {"abc", "abc123"}

\* transaction hashes the ledger may report in a receipt
TxHashes == {"tx123", "0x123"}

\* variants of RequiredFields: one field forgotten; companyId checked too
RequiredFieldsWithoutRequester == {"certificateName", "subject", "metadataHash"}

RequiredFieldsWithCompany ==
    {"certificateName", "companyId", "subject", "metadataHash", "requestedByUserId"}

\* the fields createCertificate checks before doing anything else
RequiredFields == {"certificateName", "subject", "metadataHash", "requestedByUserId"}

\* statusCode carried by the AppError of each failure of createCertificate
StatusMissingFields == 400
StatusDuplicate == 500
StatusReadFailed == 500
StatusStoreCallFailed == 502
StatusStoreNotSuccess == 500
StatusMissingTxHash == 500

\* the failures createCertificate raises as AppError, by message
AppErrors ==
    { "Missing required fields",
      "A document with the same metadataHash already exists on chain",
      "Failed to verify existing document on chain",
      "Blockchain store_document call failed",
      "Blockchain store_document failed",
      "Missing txHash from blockchain receipt" }

\* a failure of Certificate.create is not an AppError of the service: the
\* database error itself reaches the caller
PersistenceError == "Certificate.create failed"

StatusCode(error) ==
    CASE error = "Missing required fields" -> StatusMissingFields
      [] error = "A document with the same metadataHash already exists on chain" -> StatusDuplicate
      [] error = "Failed to verify existing document on chain" -> StatusReadFailed
      [] error = "Blockchain store_document call failed" -> StatusStoreCallFailed
      [] error = "Blockchain store_document failed" -> StatusStoreNotSuccess
      [] error = "Missing txHash from blockchain receipt" -> StatusMissingTxHash

\* inputs: which fields are present, and the metadataHash when it is
Inputs ==
    { [present |-> p, metadataHash |-> h] :
        p \in SUBSET Fields, h \in Hashes \cup {Undefined} }

ValidInput(i) == ("metadataHash" \in i.present) <=> (i.metadataHash # Undefined)

\* receipts of storeDocument: {status, hash | txHash}
NoReceipt == [status |-> "none", hash |-> Undefined, txHash |-> Undefined]

Receipts ==
    { [status |-> "SUCCESS", hash |-> h, txHash |-> Undefined] : h \in TxHashes }
    \cup { [status |-> "SUCCESS", hash |-> Undefined, txHash |-> h] : h \in TxHashes }
    \cup { [status |-> "SUCCESS", hash |-> h, txHash |-> h] : h \in TxHashes }
    \cup { [status |-> "FAILED", hash |-> h, txHash |-> Undefined] : h \in TxHashes }
    \cup { [status |-> "SUCCESS", hash |-> Undefined, txHash |-> Undefined],
           [status |-> "FAILED", hash |-> Undefined, txHash |-> Undefined] }

\* the transaction hash of a receipt: its hash field, else its txHash field
ReceiptTxHash(receipt) ==
    IF receipt.hash # Undefined THEN receipt.hash ELSE receipt.txHash

(* ------------------------------- state -------------------------------- *)

VARIABLES
    calls,      \* the createCertificate calls, by request slot
    ledger,     \* metadataHashes stored on chain
    receipts,   \* history: the transaction hashes of the SUCCESS receipts
                \* storeDocument returned, by metadataHash
    served,     \* number of createCertificate calls started so far
    certs,      \* Certificate collection
    txs,        \* Web3Tx collection
    events,     \* CertificateEvent collection
    nextId,     \* next fresh document id
    files,      \* paths of the stored files that exist on disk
    opCall,     \* the call of another operation of the service in flight
    opsDone,    \* number of calls of the other operations started so far
    users,      \* User collection
    userCall,   \* the call of the user service, or of a handler, in flight
    nextUserId, \* next fresh User id
    userOps     \* number of user requests started so far

\* the certificate service and its collaborators
certVars == << calls, ledger, receipts, served, certs, txs, events, nextId,
               files, opCall, opsDone >>

\* the user service and its collection
userVars == << users, userCall, nextUserId, userOps >>

vars == << calls, ledger, receipts, served, certs, txs, events, nextId,
           files, opCall, opsDone, users, userCall, nextUserId, userOps >>

\* a request slot with no call in it.  Of a call the slot keeps
\*   input                 what the caller passed
\*   before                the collections and the ledger as the call found
\*                         them
\*   trace                 the collaborator operations invoked so far, in order
\*   readResult, storeResult, receipt, certWrite, txWrite, eventWrite
\*                         what the collaborators answered
\*   outcome, error, cert, tx
\*                         what the caller gets: {cert, tx} or the error
IdleCall ==
    [ pc |-> "idle",
      input |-> [present |-> {}, metadataHash |-> Undefined],
      before |-> [certs |-> {}, txs |-> {}, events |-> {}, ledger |-> {}],
      trace |-> << >>,
      readResult |-> "none",
      storeResult |-> "none",
      receipt |-> NoReceipt,
      certWrite |-> "none",
      txWrite |-> "none",
      eventWrite |-> "none",
      cert |-> {},
      tx |-> {},
      outcome |-> "pending",
      error |-> "none" ]

\* a TransactionRecord that belongs to no Certificate carries no certificateId
NoCertificate == 0

\* paths under which uploaded files are stored
Paths == {"/tmp/old", "/tmp/new"}

\* addresses passed to whitelistAddress
Addresses == {"0xabc"}

\* deletedCounts of deleteCertificate
NoCounts == [certificate |-> 0, events |-> 0, transactions |-> 0, filesDeleted |-> 0]

\* no call of another operation in flight.  Of such a call opCall keeps
\*   kind, id, hash, address, newPath, page, limit, filter
\*                             the operation and what the caller passed
\*   found                     the Certificate findById returned
\*   before                    collections, files and ledger as the call
\*                             found them
\*   trace                     the collaborator operations invoked so far
\*   answers                   what the collaborators answered
\*   outcome, error, certificate, events, transactions, certificates,
\*   total, currentPage, totalPages, counts, issued, value, receipt
\*                             what the caller gets
IdleOp ==
    [ kind |-> "none",
      pc |-> "idle",
      id |-> NoCertificate,
      hash |-> Undefined,
      address |-> Undefined,
      newPath |-> Undefined,
      page |-> {},
      limit |-> 0,
      filter |-> Undefined,
      found |-> {},
      before |-> [certs |-> {}, txs |-> {}, events |-> {}, files |-> {},
                  ledger |-> {}],
      trace |-> << >>,
      answers |-> [ledger |-> "none", write |-> "none", unlink |-> "none",
                   event |-> "none", tx |-> "none",
                   deleteEvents |-> "none", deleteTxs |-> "none"],
      outcome |-> "pending",
      error |-> "none",
      certificate |-> {},
      events |-> {},
      transactions |-> {},
      certificates |-> << >>,
      total |-> 0,
      currentPage |-> 0,
      totalPages |-> 0,
      counts |-> NoCounts,
      issued |-> FALSE,
      value |-> Undefined,
      receipt |-> NoReceipt ]

(* user service: values and state *)

\* JavaScript values of the two types an AppError is built from
Number(n) == [number |-> n]
String(s) == [string |-> s]

\* new AppError(statusCode, message)
AppError(statusCode, message) == [statusCode |-> statusCode, message |-> message]

Roles == {"company_admin", "regulator_admin", "super_admin"}

\* an updates object without keys
NoUpdates == [k \in {} |-> Undefined]

\* no user request in flight.  Of a request userCall keeps
\*   kind      the service function, "none" when idle
\*   handler   whether a controller handler makes the call
\*   body      the userId of the request body, {} when it has none
\*   id        the id passed to the service function, {} when undefined
\*   updates   the updates passed to updateUser
\*   pc        "idle", "find", "save" or "done"
\*   before    the User collection when the request arrived
\*   found     the document the query resolved with, as the function holds it
\*   service   the service functions called
\*   trace     the operations on the User collection, in order
\*   outcome, error, result, answer
\*             how the service function ended: "returned" with the user in
\*             result or the value in answer, "rejected" with the AppError
\*   response  what the handler sent with res.status().json()
\*   forwarded the error the handler passed to next()
IdleUserCall ==
    [ kind |-> "none",
      handler |-> FALSE,
      body |-> {},
      id |-> {},
      updates |-> NoUpdates,
      pc |-> "idle",
      before |-> {},
      found |-> {},
      service |-> {},
      trace |-> << >>,
      outcome |-> "pending",
      error |-> {},
      result |-> {},
      answer |-> Undefined,
      response |-> {},
      forwarded |-> {} ]

\* an empty User collection and no request
InitUsers ==
    /\ users = {}
    /\ userCall = IdleUserCall
    /\ nextUserId = 1
    /\ userOps = 0

Init ==
    /\ calls = [c \in CallIds |-> IdleCall]
    /\ ledger = {}
    /\ receipts = {}
    /\ served = 0
    /\ certs = {}
    /\ txs = {}
    /\ events = {}
    /\ nextId = 1
    /\ files = {}
    /\ opCall = IdleOp
    /\ opsDone = 0
    /\ InitUsers

(* ------------------------------ helpers ------------------------------- *)

\* throw new AppError(...) / a rejected promise reaching the caller
Fail(call, error) ==
    [call EXCEPT !.pc = "done", !.outcome = "rejected", !.error = error]

\* one more collaborator operation invoked by the call
Called(call, op) == [call EXCEPT !.trace = Append(@, op)]

Count(trace, op) == Cardinality({ i \in 1..Len(trace) : trace[i] = op })

\* variant of ReadOutcomes: a hash another call is about to store is
\* reported as existing (a lock keyed on the metadataHash)
ReadOutcomesUnderLock(hash) ==
    {"throw"} \cup
    (IF \/ hash \in ledger
        \/ \E c \in CallIds : /\ calls[c].pc \in {"store", "persist", "tx", "event"}
                              /\ calls[c].input.metadataHash = hash
     THEN {"value"} ELSE {"null"})

\* variant of ReadOutcomes: a hash counts as existing while a Certificate
\* carries it (deleting the Certificate releases the hash)
ReadOutcomesFromDatabase(hash) ==
    {"throw"} \cup
    (IF \E cert \in certs : cert.metadataHash = hash THEN {"value"} ELSE {"null"})

\* readDocument(hash): the stored record, or null when the hash is not on
\* chain; the gateway may also throw
ReadOutcomes(hash) ==
    {"throw"} \cup (IF hash \in ledger THEN {"value"} ELSE {"null"})

(* --------------- createCertificate: what each answer leads to ---------- *)

\* if (!certificateName || !subject || !metadataHash || !requestedByUserId) throw 400
OnInput(call) ==
    IF RequiredFields \subseteq call.input.present
    THEN [call EXCEPT !.pc = "check"]
    ELSE Fail(call, "Missing required fields")

\* variant of OnRead: an existing document does not stop the call
OnReadIgnoringExisting(call, r) ==
    LET got == [call EXCEPT !.readResult = r]
    IN  CASE r \in {"null", "value"} -> [got EXCEPT !.pc = "store"]
          [] r = "throw" ->
               Fail(got, "Failed to verify existing document on chain")

\* variant of OnRead: a duplicate check that throws is taken as "not on
\* chain"
OnReadTreatingErrorAsAbsent(call, r) ==
    LET got == [call EXCEPT !.readResult = r]
    IN  CASE r \in {"null", "throw"} -> [got EXCEPT !.pc = "store"]
          [] r = "value" ->
               Fail(got, "A document with the same metadataHash already exists on chain")

\* the answer of readDocument(metadataHash)
OnRead(call, r) ==
    LET got == [call EXCEPT !.readResult = r]
    IN  CASE r = "null" -> [got EXCEPT !.pc = "store"]
          [] r = "value" ->
               Fail(got, "A document with the same metadataHash already exists on chain")
          [] r = "throw" ->
               Fail(got, "Failed to verify existing document on chain")

\* variant of OnStoreThrow: the store call is tried again
OnStoreThrowRetrying(call) ==
    [call EXCEPT !.storeResult = "throw", !.pc = "store"]

\* storeDocument(...) rejected
OnStoreThrow(call) ==
    Fail([call EXCEPT !.storeResult = "throw"], "Blockchain store_document call failed")

\* variant of OnReceipt: a SUCCESS receipt without a hash is accepted
OnReceiptWithoutHashCheck(call, receipt) ==
    LET got == [call EXCEPT !.storeResult = "receipt", !.receipt = receipt]
    IN  CASE receipt.status # "SUCCESS" ->
               Fail(got, "Blockchain store_document failed")
          [] OTHER -> [got EXCEPT !.pc = "persist"]

\* variant of OnReceipt: the status of the receipt is not looked at
OnReceiptWithoutStatusCheck(call, receipt) ==
    LET got == [call EXCEPT !.storeResult = "receipt", !.receipt = receipt]
    IN  CASE ReceiptTxHash(receipt) = Undefined ->
               Fail(got, "Missing txHash from blockchain receipt")
          [] OTHER -> [got EXCEPT !.pc = "persist"]

\* variant of OnReceipt: the transaction hash is looked for before the
\* status
OnReceiptHashFirst(call, receipt) ==
    LET got == [call EXCEPT !.storeResult = "receipt", !.receipt = receipt]
    IN  CASE ReceiptTxHash(receipt) = Undefined ->
               Fail(got, "Missing txHash from blockchain receipt")
          [] receipt.status # "SUCCESS" ->
               Fail(got, "Blockchain store_document failed")
          [] OTHER -> [got EXCEPT !.pc = "persist"]

\* storeDocument(...) resolved with a receipt
OnReceipt(call, receipt) ==
    LET got == [call EXCEPT !.storeResult = "receipt", !.receipt = receipt]
    IN  CASE receipt.status # "SUCCESS" ->
               Fail(got, "Blockchain store_document failed")
          [] receipt.status = "SUCCESS" /\ ReceiptTxHash(receipt) = Undefined ->
               Fail(got, "Missing txHash from blockchain receipt")
          [] OTHER -> [got EXCEPT !.pc = "persist"]

\* variant of CertificateDoc: only the receipt's hash field is read
CertificateDocFromHashField(call, id) ==
    [ id |-> id,
      metadataHash |-> call.input.metadataHash,
      certificateName |-> "C",
      path |-> Undefined,
      status |-> "issued",
      txHashIssue |-> call.receipt.hash ]

\* the document handed to Certificate.create
CertificateDoc(call, id) ==
    [ id |-> id,
      metadataHash |-> call.input.metadataHash,
      certificateName |-> "C",
      path |-> Undefined,
      status |-> "issued",
      txHashIssue |-> ReceiptTxHash(call.receipt) ]

\* the document handed to Web3Tx.create
Web3TxDoc(call, id) ==
    [ id |-> id,
      txHash |-> ReceiptTxHash(call.receipt),
      certificateId |-> CHOOSE i \in call.cert : TRUE ]

\* the document handed to CertificateEvent.create
IssuedEventDoc(call, id) ==
    [ id |-> id,
      certificateId |-> CHOOSE i \in call.cert : TRUE,
      type |-> "issued",
      action |-> Undefined,
      actor |-> "u1" ]

\* variant of OnCertWrite: a rejected write is tried again
OnCertWriteRetrying(call, ok, id) ==
    IF ok
    THEN [call EXCEPT !.certWrite = "ok", !.cert = {id}, !.pc = "tx"]
    ELSE [call EXCEPT !.certWrite = "failed", !.pc = "persist"]

\* Certificate.create resolved (ok, with the new document's id) or rejected
OnCertWrite(call, ok, id) ==
    IF ok
    THEN [call EXCEPT !.certWrite = "ok", !.cert = {id}, !.pc = "tx"]
    ELSE Fail([call EXCEPT !.certWrite = "failed"], PersistenceError)

\* variant of OnTxWrite: no try/catch around the write
OnTxWriteUncaught(call, ok, id) ==
    IF ok
    THEN [call EXCEPT !.txWrite = "ok", !.tx = {id}, !.pc = "event"]
    ELSE Fail([call EXCEPT !.txWrite = "failed"], "Web3Tx.create failed")

\* variant of OnTxWrite: one try/catch around both secondary writes, so a
\* rejected Web3Tx.create skips the event
OnTxWriteSkippingEvent(call, ok, id) ==
    IF ok
    THEN [call EXCEPT !.txWrite = "ok", !.tx = {id}, !.pc = "event"]
    ELSE [call EXCEPT !.txWrite = "failed", !.pc = "done", !.outcome = "returned"]

\* Web3Tx.create resolved or rejected, inside its own try/catch
OnTxWrite(call, ok, id) ==
    IF ok
    THEN [call EXCEPT !.txWrite = "ok", !.tx = {id}, !.pc = "event"]
    ELSE [call EXCEPT !.txWrite = "failed", !.pc = "event"]

\* CertificateEvent.create resolved or rejected, inside its own try/catch;
\* then return { cert, tx }
OnEventWrite(call, ok) ==
    [call EXCEPT !.eventWrite = IF ok THEN "ok" ELSE "failed",
                 !.pc = "done", !.outcome = "returned"]

(* ------------------------ createCertificate: steps --------------------- *)

\* entry of createCertificate: the required-field check
Validate(c, input) ==
    /\ calls[c].pc = "idle"
    /\ ValidInput(input)
    /\ served < MaxCalls
    /\ served' = served + 1
    /\ calls' = [calls EXCEPT ![c] =
          OnInput([IdleCall EXCEPT
              !.input = input,
              !.before = [certs |-> certs, txs |-> txs, events |-> events,
                          ledger |-> ledger]])]
    /\ UNCHANGED << userVars, ledger, receipts, certs, txs, events, nextId, files, opCall, opsDone >>

\* duplicate check: existing = await sorobanService.readDocument(metadataHash)
CheckExisting(c) ==
    /\ calls[c].pc = "check"
    /\ \E r \in ReadOutcomes(calls[c].input.metadataHash) :
         calls' = [calls EXCEPT ![c] = OnRead(Called(calls[c], "readDocument"), r)]
    /\ UNCHANGED << userVars, ledger, receipts, served, certs, txs, events, nextId, files, opCall, opsDone >>

\* receipt = await sorobanService.storeDocument(certificateName, metadataHash, null)
StoreOnChain(c) ==
    /\ calls[c].pc = "store"
    /\ LET call == Called(calls[c], "storeDocument")
           hash == calls[c].input.metadataHash
       IN  \/ /\ calls' = [calls EXCEPT ![c] = OnStoreThrow(call)]
              /\ UNCHANGED << userVars, ledger, receipts >>
           \/ \E receipt \in Receipts :
                /\ ledger' = IF receipt.status = "SUCCESS"
                             THEN ledger \cup {hash} ELSE ledger
                /\ receipts' = IF receipt.status = "SUCCESS"
                               THEN receipts \cup
                                    { [metadataHash |-> hash, txHash |-> t] :
                                        t \in {receipt.hash, receipt.txHash} \ {Undefined} }
                               ELSE receipts
                /\ calls' = [calls EXCEPT ![c] = OnReceipt(call, receipt)]
    /\ UNCHANGED << userVars, served, certs, txs, events, nextId, files, opCall, opsDone >>

\* cert = await Certificate.create({... status: 'issued', chain: {txHashIssue}})
PersistCertificate(c) ==
    /\ calls[c].pc = "persist"
    /\ LET call == Called(calls[c], "Certificate.create")
       IN  \/ /\ certs' = certs \cup {CertificateDoc(call, nextId)}
              /\ nextId' = nextId + 1
              /\ calls' = [calls EXCEPT ![c] = OnCertWrite(call, TRUE, nextId)]
           \/ /\ calls' = [calls EXCEPT ![c] = OnCertWrite(call, FALSE, nextId)]
              /\ UNCHANGED << userVars, certs, nextId >>
    /\ UNCHANGED << userVars, ledger, receipts, served, txs, events, files, opCall, opsDone >>

\* try { tx = await Web3Tx.create({...}) } catch { log }
RecordTransaction(c) ==
    /\ calls[c].pc = "tx"
    /\ LET call == Called(calls[c], "Web3Tx.create")
       IN  \/ /\ txs' = txs \cup {Web3TxDoc(call, nextId)}
              /\ nextId' = nextId + 1
              /\ calls' = [calls EXCEPT ![c] = OnTxWrite(call, TRUE, nextId)]
           \/ /\ calls' = [calls EXCEPT ![c] = OnTxWrite(call, FALSE, nextId)]
              /\ UNCHANGED << userVars, txs, nextId >>
    /\ UNCHANGED << userVars, ledger, receipts, served, certs, events, files, opCall, opsDone >>

\* try { await CertificateEvent.create({type: 'issued', ...}) } catch { log }
\* return { cert, tx }
RecordIssuedEvent(c) ==
    /\ calls[c].pc = "event"
    /\ LET call == Called(calls[c], "CertificateEvent.create")
       IN  \/ /\ events' = events \cup {IssuedEventDoc(call, nextId)}
              /\ nextId' = nextId + 1
              /\ calls' = [calls EXCEPT ![c] = OnEventWrite(call, TRUE)]
           \/ /\ calls' = [calls EXCEPT ![c] = OnEventWrite(call, FALSE)]
              /\ UNCHANGED << userVars, events, nextId >>
    /\ UNCHANGED << userVars, ledger, receipts, served, certs, txs, files, opCall, opsDone >>

\* the caller has its answer; the request slot is free again
Return(c) ==
    /\ calls[c].pc = "done"
    /\ calls' = [calls EXCEPT ![c] = IdleCall]
    /\ UNCHANGED << userVars, ledger, receipts, served, certs, txs, events, nextId, files, opCall, opsDone >>

\* requests are served one after the other: a call starts when no other
\* call is in flight
NoCallInFlight == \A c \in CallIds : calls[c].pc = "idle"

Next ==
    \E c \in CallIds :
        \/ NoCallInFlight /\ \E input \in Inputs : Validate(c, input)
        \/ CheckExisting(c)
        \/ StoreOnChain(c)
        \/ PersistCertificate(c)
        \/ RecordTransaction(c)
        \/ RecordIssuedEvent(c)
        \/ Return(c)

Spec == Init /\ [][Next]_vars

\* inputs that pass validation with every field given
CompleteInputs == { i \in Inputs : i.present = Fields /\ ValidInput(i) }

(* ------------- checkCertificateIssued, initContract, whitelistAddress -- *)

\* a call of one of the other operations starts: no other one is in flight
BeginOp(kind) ==
    [IdleOp EXCEPT
        !.kind = kind,
        !.before = [certs |-> certs, txs |-> txs, events |-> events, files |-> files,
                    ledger |-> ledger]]

OpIdle == opCall.pc = "idle" /\ opsDone < MaxOps

\* JavaScript null
Null == "null"

StatusVerifyFailed == 500
StatusNotFound == 404

\* the failure checkCertificateIssued wraps a ledger error into
VerifyFailed == "Failed to verify document on chain"

\* the failure of an operation on a Certificate that does not exist
NotFound == "Certificate not found"

\* statusCode of the AppErrors of these operations
OpStatusCode(error) ==
    CASE error = VerifyFailed -> StatusVerifyFailed
      [] error = NotFound -> StatusNotFound

\* verifyDocument(hash): the stored value, or null when the hash is not on
\* chain; the gateway may also throw
VerifyOutcomes(hash) ==
    {"throw"} \cup (IF hash \in ledger THEN {"value"} ELSE {"null"})

\* variant of OnVerify: a ledger error is treated as "not issued"
OnVerifySwallowingErrors(call, hash, r) ==
    [call EXCEPT !.pc = "done", !.outcome = "returned",
                 !.answers.ledger = r,
                 !.issued = (r = "value"),
                 !.value = IF r = "value" THEN hash ELSE Null]

\* checkCertificateIssued after verifyDocument answered r:
\*   try { value = await verifyDocument(hash) } catch { throw AppError(500) }
\*   return { issued: value is there, value }
OnVerify(call, hash, r) ==
    IF r = "throw"
    THEN Fail([call EXCEPT !.answers.ledger = r], VerifyFailed)
    ELSE [call EXCEPT !.pc = "done", !.outcome = "returned",
                      !.answers.ledger = r,
                      !.issued = (r = "value"),
                      !.value = IF r = "value" THEN hash ELSE Null]

\* checkCertificateIssued(hash)
CheckCertificateIssued(hash) ==
    /\ OpIdle
    /\ opsDone' = opsDone + 1
    /\ \E r \in VerifyOutcomes(hash) :
         opCall' = OnVerify(
             Called([BeginOp("checkCertificateIssued") EXCEPT !.hash = hash],
                    "verifyDocument"),
             hash, r)
    /\ UNCHANGED << userVars, calls, ledger, receipts, served, certs, txs, events, nextId, files >>

\* the receipt the ledger answers an admin operation with
AdminReceipt(kind) ==
    [ status |-> "SUCCESS",
      hash |-> IF kind = "initContract" THEN "0xinit" ELSE "0xwhitelist",
      txHash |-> Undefined ]

\* the error of a ledger admin operation that failed
LedgerError == "ledger operation failed"

\* initContract / whitelistAddress after the ledger answered r:
\*   receipt = await sorobanService.initContract()      (a throw propagates)
OnAdminAnswer(call, r) ==
    IF r = "throw"
    THEN Fail([call EXCEPT !.answers.ledger = r], LedgerError)
    ELSE [call EXCEPT !.pc = "tx", !.answers.ledger = r]

\* the Web3Tx document persisted for the receipt of an admin operation
AdminTxDoc(call, id) ==
    [ id |-> id, txHash |-> AdminReceipt(call.kind).hash, certificateId |-> NoCertificate ]

\* variant of OnAdminTxWrite: a failed Web3Tx.create fails the call
OnAdminTxWriteUncaught(call, ok) ==
    IF ok
    THEN [call EXCEPT !.pc = "done", !.outcome = "returned",
                      !.answers.tx = "ok", !.receipt = AdminReceipt(call.kind)]
    ELSE Fail([call EXCEPT !.answers.tx = "fail"], PersistenceError)

\*   try { await Web3Tx.create({txHash: receipt.hash, ...}) } catch { log }
\*   return receipt
OnAdminTxWrite(call, ok) ==
    [call EXCEPT !.pc = "done", !.outcome = "returned",
                 !.answers.tx = IF ok THEN "ok" ELSE "fail",
                 !.receipt = AdminReceipt(call.kind)]

\* initContract()
InitContract ==
    /\ OpIdle
    /\ opsDone' = opsDone + 1
    /\ \E r \in {"receipt", "throw"} :
         opCall' = OnAdminAnswer(Called(BeginOp("initContract"), "initContract"), r)
    /\ UNCHANGED << userVars, calls, ledger, receipts, served, certs, txs, events, nextId, files >>

\* whitelistAddress(address)
WhitelistAddress(address) ==
    /\ OpIdle
    /\ opsDone' = opsDone + 1
    /\ \E r \in {"receipt", "throw"} :
         opCall' = OnAdminAnswer(
             Called([BeginOp("whitelistAddress") EXCEPT !.address = address],
                    "whitelistAddress"), r)
    /\ UNCHANGED << userVars, calls, ledger, receipts, served, certs, txs, events, nextId, files >>

\* the receipt of the admin operation is persisted, best effort
RecordAdminTransaction ==
    /\ opCall.pc = "tx"
    /\ opCall.kind \in {"initContract", "whitelistAddress"}
    /\ LET call == Called(opCall, "Web3Tx.create")
       IN  \/ /\ txs' = txs \cup {AdminTxDoc(call, nextId)}
              /\ nextId' = nextId + 1
              /\ opCall' = OnAdminTxWrite(call, TRUE)
           \/ /\ opCall' = OnAdminTxWrite(call, FALSE)
              /\ UNCHANGED << userVars, txs, nextId >>
    /\ UNCHANGED << userVars, calls, ledger, receipts, served, certs, events, files, opsDone >>

\* the caller of the operation has its answer
ReturnOp ==
    /\ opCall.pc = "done"
    /\ opCall' = IdleOp
    /\ UNCHANGED << userVars, calls, ledger, receipts, served, certs, txs, events, nextId,
                    files, opsDone >>

\* the ledger holds the documents stored so far; of each the history keeps
\* the hash of its SUCCESS receipt
InitLedgerOps ==
    /\ calls = [c \in CallIds |-> IdleCall]
    /\ ledger \in SUBSET Hashes
    /\ receipts = { [metadataHash |-> h, txHash |-> "tx123"] : h \in ledger }
    /\ served = 0
    /\ certs = {}
    /\ txs = {}
    /\ events = {}
    /\ nextId = 1
    /\ files = {}
    /\ opCall = IdleOp
    /\ opsDone = 0
    /\ InitUsers

NextLedgerOps ==
    \/ \E hash \in Hashes : CheckCertificateIssued(hash)
    \/ InitContract
    \/ \E address \in Addresses : WhitelistAddress(address)
    \/ RecordAdminTransaction
    \/ ReturnOp

SpecLedgerOps == InitLedgerOps /\ [][NextLedgerOps]_vars

(* ------- getCertificateById, updateCertificate, deleteCertificate ------ *)

\* Certificate.findById(id): the document with this id, if there is one
FindById(id) == { cert \in certs : cert.id = id }

\* the documents of a collection that reference the Certificate id
Referencing(collection, id) == { d \in collection : d.certificateId = id }

\* ids a caller may pass: those of the Certificates there are, and one that
\* is the id of no Certificate
KnownIds == { cert.id : cert \in certs } \cup {nextId}

\* variant of OnFind: a missing Certificate gives an empty answer, no error
OnFindSilent(call, found, pc) ==
    IF found = {}
    THEN [call EXCEPT !.pc = "done", !.outcome = "returned"]
    ELSE [call EXCEPT !.found = found, !.pc = pc]

\*   cert = await Certificate.findById(id)
\*   if (!cert) throw new AppError(404, 'Certificate not found')
OnFind(call, found, pc) ==
    IF found = {}
    THEN Fail(call, NotFound)
    ELSE [call EXCEPT !.found = found, !.pc = pc]

\* getCertificateById(id): the Certificate with its events and transactions
GetCertificateById(id) ==
    /\ OpIdle
    /\ opsDone' = opsDone + 1
    /\ LET call == OnFind(Called([BeginOp("getCertificateById") EXCEPT !.id = id],
                                 "Certificate.findById"),
                          FindById(id), "related")
       IN  opCall' = IF call.pc = "related"
                     THEN [call EXCEPT
                              !.pc = "done", !.outcome = "returned",
                              !.trace = @ \o << "CertificateEvent.find", "Web3Tx.find" >>,
                              !.certificate = call.found,
                              !.events = Referencing(events, id),
                              !.transactions = Referencing(txs, id)]
                     ELSE call
    /\ UNCHANGED << userVars, calls, ledger, receipts, served, certs, txs, events, nextId, files >>

(* getAllCertificates *)

\* the page returned when the caller names none
DefaultPage == 1

\* the Certificates that match filters.status, all of them without filter
MatchingFilter(filter) ==
    IF filter = Undefined THEN certs ELSE { cert \in certs : cert.status = filter }

\* the default order of the listing: newest first
RECURSIVE NewestFirst(_)
NewestFirst(S) ==
    IF S = {} THEN << >>
    ELSE LET newest == CHOOSE x \in S : \A y \in S : y.id <= x.id
         IN  << newest >> \o NewestFirst(S \ {newest})

\* find(...).skip((page - 1) * limit).limit(limit)
PageOf(list, page, limit) ==
    LET first == (page - 1) * limit + 1
        last == IF page * limit < Len(list) THEN page * limit ELSE Len(list)
    IN  IF first > last THEN << >> ELSE SubSeq(list, first, last)

\* Math.ceil(total / limit)
TotalPages(total, limit) == (total + limit - 1) \div limit

\* variant of SignedBy: the actor of the first event of the Certificate
SignedByFirstEvent(cert) ==
    LET own == Referencing(events, cert.id)
    IN  IF own = {} THEN Null
        ELSE (CHOOSE e \in own : \A f \in own : e.id <= f.id).actor

\* the actor.userId of the most recent event of the Certificate
SignedBy(cert) ==
    LET own == Referencing(events, cert.id)
    IN  IF own = {} THEN Null
        ELSE (CHOOSE e \in own : \A f \in own : f.id <= e.id).actor

\* the compact item the listing returns for a Certificate
CertificateDto(cert) ==
    [ id |-> cert.id,
      certificateName |-> cert.certificateName,
      signedBy |-> SignedBy(cert),
      txHash |-> cert.txHashIssue ]

\* getAllCertificates({filters, page, limit}); pageArg is {} when the
\* caller names no page
GetAllCertificates(pageArg, limit, filter) ==
    /\ OpIdle
    /\ opsDone' = opsDone + 1
    /\ LET call == [BeginOp("getAllCertificates") EXCEPT
                       !.page = pageArg, !.limit = limit, !.filter = filter]
           page == IF pageArg = {} THEN DefaultPage ELSE CHOOSE n \in pageArg : TRUE
           matching == MatchingFilter(filter)
           listed == PageOf(NewestFirst(matching), page, limit)
       IN  \/ opCall' = Fail(Called(call, "Certificate.find"),
                             "Failed to retrieve certificates")
           \/ opCall' =
                [call EXCEPT
                    !.pc = "done", !.outcome = "returned",
                    !.trace = << "Certificate.find", "Certificate.countDocuments",
                                 "CertificateEvent.find" >>,
                    !.certificates = [i \in 1..Len(listed) |-> CertificateDto(listed[i])],
                    !.total = Cardinality(matching),
                    !.currentPage = page,
                    !.totalPages = TotalPages(Cardinality(matching), limit)]
    /\ UNCHANGED << userVars, calls, ledger, receipts, served, certs, txs, events, nextId, files >>

(* updateCertificate *)

\* updateCertificate(id, {updateData, newStorageMeta: {path: newPath}})
UpdateCertificate(id, newPath) ==
    /\ OpIdle
    /\ opsDone' = opsDone + 1
    /\ opCall' = OnFind(Called([BeginOp("updateCertificate") EXCEPT
                                   !.id = id, !.newPath = newPath],
                               "Certificate.findById"),
                        FindById(id), "update")
    /\ UNCHANGED << userVars, calls, ledger, receipts, served, certs, txs, events, nextId, files >>

\* the Certificate as findByIdAndUpdate leaves it: the fields of updateData
\* and, when the file is replaced, the new storage path
UpdatedDoc(cert, newPath) ==
    [cert EXCEPT !.certificateName = "Updated",
                 !.path = IF newPath # Undefined THEN newPath ELSE @]

\* the path of the file the update replaces, if it replaces one
ReplacedPath(call) ==
    LET cert == CHOOSE c \in call.found : TRUE
    IN  IF call.newPath # Undefined /\ cert.path # Undefined
        THEN {cert.path} ELSE {}

\* variant of OnUpdateWrite: the old file is cleaned up whatever the
\* database answered
OnUpdateWriteCleaningFirst(call, ok) ==
    [call EXCEPT !.answers.write = IF ok THEN "ok" ELSE "fail",
                 !.certificate = IF ok
                                 THEN {UpdatedDoc(CHOOSE c \in call.found : TRUE, call.newPath)}
                                 ELSE {},
                 !.pc = IF ReplacedPath(call) # {} THEN "cleanup" ELSE "event"]

\*   updated = await Certificate.findByIdAndUpdate(id, update, {new: true})
\* a rejected update propagates; the old file is looked at only afterwards
OnUpdateWrite(call, ok) ==
    IF ok
    THEN [call EXCEPT !.answers.write = "ok",
                      !.certificate = {UpdatedDoc(CHOOSE c \in call.found : TRUE, call.newPath)},
                      !.pc = IF ReplacedPath(call) # {} THEN "cleanup" ELSE "event"]
    ELSE Fail([call EXCEPT !.answers.write = "fail"], PersistenceError)

ApplyUpdate ==
    /\ opCall.kind = "updateCertificate"
    /\ opCall.pc = "update"
    /\ LET call == Called(opCall, "Certificate.findByIdAndUpdate")
           cert == CHOOSE c \in opCall.found : TRUE
       IN  \/ /\ certs' = (certs \ {cert}) \cup {UpdatedDoc(cert, opCall.newPath)}
              /\ opCall' = OnUpdateWrite(call, TRUE)
           \/ /\ opCall' = OnUpdateWrite(call, FALSE)
              /\ UNCHANGED certs
    /\ UNCHANGED << userVars, calls, ledger, receipts, served, txs, events, nextId, files, opsDone >>

\*   try { if (fs.existsSync(old)) fs.unlinkSync(old) } catch { logger.warn }
OnOldFileUnlink(call, r) ==
    [call EXCEPT !.answers.unlink = r, !.pc = "event"]

\* best-effort removal of the file the update replaced
CleanupOldFile ==
    /\ opCall.kind = "updateCertificate"
    /\ opCall.pc = "cleanup"
    /\ LET old == CHOOSE q \in ReplacedPath(opCall) : TRUE
           looked == Called(opCall, "existsSync")
       IN  IF old \in files
           THEN \/ /\ files' = files \ {old}
                   /\ opCall' = OnOldFileUnlink(Called(looked, "unlinkSync"), "ok")
                \/ /\ opCall' = OnOldFileUnlink(Called(looked, "unlinkSync"), "throw")
                   /\ UNCHANGED files
           ELSE /\ opCall' = OnOldFileUnlink(looked, "missing")
                /\ UNCHANGED files
    /\ UNCHANGED << userVars, calls, ledger, receipts, served, certs, txs, events, nextId, opsDone >>

\* the document handed to CertificateEvent.create by updateCertificate
UpdatedEventDoc(call, id) ==
    [ id |-> id,
      certificateId |-> call.id,
      type |-> "comment",
      action |-> "updated",
      actor |-> "u" ]

\* variant of EventsWith: the 'comment' event of the Certificate is
\* overwritten by the new one
EventsWithLatestComment(collection, doc) ==
    { e \in collection :
        ~(e.certificateId = doc.certificateId /\ e.type = doc.type) } \cup {doc}

\* CertificateEvent.create(doc): the collection with the document added
EventsWith(collection, doc) == collection \cup {doc}

\* variant of OnUpdatedEvent: a failed event write fails the update
OnUpdatedEventUncaught(call, ok) ==
    IF ok
    THEN [call EXCEPT !.answers.event = "ok", !.pc = "done", !.outcome = "returned"]
    ELSE Fail([call EXCEPT !.answers.event = "fail"], PersistenceError)

\*   try { await CertificateEvent.create({type: 'comment',
\*           details: {action: 'updated'}, ...}) } catch { log }
\*   return { certificate: updated }
OnUpdatedEvent(call, ok) ==
    [call EXCEPT !.answers.event = IF ok THEN "ok" ELSE "fail",
                 !.pc = "done", !.outcome = "returned"]

RecordUpdatedEvent ==
    /\ opCall.kind = "updateCertificate"
    /\ opCall.pc = "event"
    /\ LET call == Called(opCall, "CertificateEvent.create")
       IN  \/ /\ events' = EventsWith(events, UpdatedEventDoc(call, nextId))
              /\ nextId' = nextId + 1
              /\ opCall' = OnUpdatedEvent(call, TRUE)
           \/ /\ opCall' = OnUpdatedEvent(call, FALSE)
              /\ UNCHANGED << userVars, events, nextId >>
    /\ UNCHANGED << userVars, calls, ledger, receipts, served, certs, txs, files, opsDone >>

\* deleteCertificate(id, {deletedByUserId})
DeleteCertificate(id) ==
    /\ OpIdle
    /\ opsDone' = opsDone + 1
    /\ opCall' = OnFind(Called([BeginOp("deleteCertificate") EXCEPT !.id = id],
                               "Certificate.findById"),
                        FindById(id), "deleteEvents")
    /\ UNCHANGED << userVars, calls, ledger, receipts, served, certs, txs, events, nextId, files >>

\* variant of Matching: the filter of deleteMany matches every document
MatchingAny(collection, id) == collection

\* variant of Matching: the filter of deleteMany names a field the
\* documents do not have and matches none
MatchingNone(collection, id) == {}

\* deleteMany({certificateId: id}): the documents the filter matches
Matching(collection, id) == Referencing(collection, id)

\*   r = await CertificateEvent.deleteMany({certificateId: id})
\*   deletedCounts.events = r.deletedCount
DeleteEvents ==
    /\ opCall.kind = "deleteCertificate"
    /\ opCall.pc = "deleteEvents"
    /\ LET gone == Matching(events, opCall.id)
       IN  /\ events' = events \ gone
           /\ opCall' = [Called(opCall, "CertificateEvent.deleteMany") EXCEPT
                            !.answers.deleteEvents = "ok",
                            !.counts.events = Cardinality(gone),
                            !.pc = "deleteTxs"]
    /\ UNCHANGED << userVars, calls, ledger, receipts, served, certs, txs, nextId, files, opsDone >>

\*   r = await Web3Tx.deleteMany({certificateId: id})
\*   deletedCounts.transactions = r.deletedCount
DeleteTransactions ==
    /\ opCall.kind = "deleteCertificate"
    /\ opCall.pc = "deleteTxs"
    /\ LET gone == Matching(txs, opCall.id)
       IN  /\ txs' = txs \ gone
           /\ opCall' = [Called(opCall, "Web3Tx.deleteMany") EXCEPT
                            !.answers.deleteTxs = "ok",
                            !.counts.transactions = Cardinality(gone),
                            !.pc = "deleteCert"]
    /\ UNCHANGED << userVars, calls, ledger, receipts, served, certs, events, nextId, files, opsDone >>

\*   await Certificate.findByIdAndDelete(id); deletedCounts.certificate = 1
DeleteCertificateRecord ==
    /\ opCall.kind = "deleteCertificate"
    /\ opCall.pc = "deleteCert"
    /\ certs' = certs \ FindById(opCall.id)
    /\ opCall' = [Called(opCall, "Certificate.findByIdAndDelete") EXCEPT
                     !.answers.write = "ok",
                     !.counts.certificate = Cardinality(FindById(opCall.id)),
                     !.pc = "file"]
    /\ UNCHANGED << userVars, calls, ledger, receipts, served, txs, events, nextId, files, opsDone >>

\* the storage path of the Certificate being deleted, if it has one
StoredPath(call) ==
    LET cert == CHOOSE c \in call.found : TRUE
    IN  IF cert.path # Undefined THEN {cert.path} ELSE {}

\* variant of OnFileRemoval: the file counts as deleted once unlinkSync
\* was called
OnFileRemovalCountingAttempts(call, r) ==
    [call EXCEPT !.answers.unlink = r,
                 !.counts.filesDeleted = IF r \in {"ok", "throw"} THEN 1 ELSE 0,
                 !.pc = "done", !.outcome = "returned"]

\*   if (path) try { if (fs.existsSync(path)) { fs.unlinkSync(path);
\*                     deletedCounts.filesDeleted = 1 } } catch { logger.error }
\*   return { deletedCounts }
OnFileRemoval(call, r) ==
    [call EXCEPT !.answers.unlink = r,
                 !.counts.filesDeleted = IF r = "ok" THEN 1 ELSE 0,
                 !.pc = "done", !.outcome = "returned"]

\* best-effort removal of the stored file of the deleted Certificate
DeleteStoredFile ==
    /\ opCall.kind = "deleteCertificate"
    /\ opCall.pc = "file"
    /\ IF StoredPath(opCall) = {}
       THEN /\ opCall' = OnFileRemoval(opCall, "nopath")
            /\ UNCHANGED files
       ELSE LET path == CHOOSE q \in StoredPath(opCall) : TRUE
                looked == Called(opCall, "existsSync")
            IN  IF path \in files
                THEN \/ /\ files' = files \ {path}
                        /\ opCall' = OnFileRemoval(Called(looked, "unlinkSync"), "ok")
                     \/ /\ opCall' = OnFileRemoval(Called(looked, "unlinkSync"), "throw")
                        /\ UNCHANGED files
                ELSE /\ opCall' = OnFileRemoval(looked, "missing")
                     /\ UNCHANGED files
    /\ UNCHANGED << userVars, calls, ledger, receipts, served, certs, txs, events, nextId, opsDone >>

\* the upload handler writes the file of a Certificate under its storage
\* path p
StoreFile(p) ==
    /\ p \notin files
    /\ \E cert \in certs : cert.path = p
    /\ opCall.pc = "idle"
    /\ files' = files \cup {p}
    /\ UNCHANGED << userVars, calls, ledger, receipts, served, certs, txs, events, nextId,
                    opCall, opsDone >>

\* one request at a time: a call starts when no other call is in flight,
\* and MaxOps requests are made in all
Quiescent == NoCallInFlight /\ opCall.pc = "idle"

RequestsLeft == Quiescent /\ served + opsDone < MaxOps

NextLifecycle ==
    \/ \E c \in CallIds :
          \/ RequestsLeft /\ \E input \in CompleteInputs : Validate(c, input)
          \/ CheckExisting(c)
          \/ StoreOnChain(c)
          \/ PersistCertificate(c)
          \/ RecordTransaction(c)
          \/ RecordIssuedEvent(c)
          \/ Return(c)
    \/ /\ RequestsLeft
       /\ \/ \E id \in KnownIds : GetCertificateById(id)
          \/ \E id \in KnownIds, newPath \in Paths \cup {Undefined} :
                UpdateCertificate(id, newPath)
          \/ \E id \in KnownIds : DeleteCertificate(id)
          \/ \E pageArg \in {{}} \cup { {n} : n \in 1..MaxPage },
                limit \in 1..MaxLimit, filter \in {Undefined, "issued"} :
                GetAllCertificates(pageArg, limit, filter)
          \/ InitContract
    \/ RecordAdminTransaction
    \/ Quiescent /\ \E p \in Paths : StoreFile(p)
    \/ ApplyUpdate
    \/ CleanupOldFile
    \/ RecordUpdatedEvent
    \/ DeleteEvents
    \/ DeleteTransactions
    \/ DeleteCertificateRecord
    \/ DeleteStoredFile
    \/ ReturnOp

SpecLifecycle == Init /\ [][NextLifecycle]_vars

(* ------------------- createCertificate: concurrent calls --------------- *)

\* two requests arrive, one per request slot
SlotUnused == served < Cardinality(CallIds)

\* requests are served as they arrive: the steps of the calls in flight
\* interleave at every await
NextConcurrent ==
    \E c \in CallIds :
        \/ SlotUnused /\ \E input \in CompleteInputs : Validate(c, input)
        \/ CheckExisting(c)
        \/ StoreOnChain(c)
        \/ PersistCertificate(c)
        \/ RecordTransaction(c)
        \/ RecordIssuedEvent(c)
        \/ Return(c)

SpecConcurrent == Init /\ [][NextConcurrent]_vars

(* ------------------------------ user service --------------------------- *)

\* values a caller may pass
Names == {"Ann", "Bob"}
Passwords == {"pw1", "pw2"}
Emails == {"A@x.io", "a@x.io", "b@x.io"}

\* email.toLowerCase()
ToLowerCase(email) == IF email = "A@x.io" THEN "a@x.io" ELSE email

\* createUser: role = 'company_admin' when the caller names none
DefaultRole == "company_admin"

\* the failures the user service throws, as it builds them
UserNotFound == AppError(String("User not found"), Number(404))
EmailRegistered == AppError(String("Email already registered"), Number(400))

\* the functions user.service.js exports
ServiceExports ==
    {"findUserById", "findUserByEmail", "createUser", "updateUser", "deleteUser",
     "promoteUserToRegulatorAdmin", "demoteRegulatorAdmin", "getAllUsersGrouped"}

StatusOk == 200
StatusBadRequest == 400

\* the ids a caller may pass: of each User, of no User, and none (undefined)
UserIdArgs == {{}} \cup { {u.id} : u \in users } \cup {{nextUserId}}

\* the keys of an updates object and the value it carries for each
UpdateKeys == {"name", "password", "role", "email"}
NewValue ==
    [ name |-> "Bob", password |-> "pw2", role |-> "super_admin", email |-> "b@x.io" ]
UpdateObjects == { [k \in K |-> NewValue[k]] : K \in SUBSET UpdateKeys }

\* User.findById(id): the User with this id; none for an undefined id
UserById(idArg) == { u \in users : u.id \in idArg }

UserIdle == userCall.pc = "idle" /\ userOps < MaxUserOps

\* a service function is called with this id
BeginUserCall(kind, idArg) ==
    [IdleUserCall EXCEPT
        !.kind = kind, !.id = idArg, !.before = users, !.service = {kind}]

\* one more operation on the User collection
Queried(call, op) == [call EXCEPT !.trace = Append(@, op)]

\* what the handler does with the end of the service call: res.json(...)
\* with the user when it returned, next(err) when it threw
Respond(call) ==
    IF ~call.handler THEN call
    ELSE IF call.outcome = "returned"
         THEN [call EXCEPT !.response = {[ status |-> StatusOk, success |-> TRUE,
                                           message |-> Undefined,
                                           data |-> call.result ]}]
         ELSE [call EXCEPT !.forwarded = call.error]

UserFail(call, error) ==
    Respond([call EXCEPT !.pc = "done", !.outcome = "rejected", !.error = {error}])

UserReturn(call, result) ==
    Respond([call EXCEPT !.pc = "done", !.outcome = "returned", !.result = result])

\* findUserById(id)
FindUserById(idArg) ==
    /\ UserIdle
    /\ userOps' = userOps + 1
    /\ LET call == Queried(BeginUserCall("findUserById", idArg), "User.findById")
       IN  userCall' = IF UserById(idArg) = {} THEN UserFail(call, UserNotFound)
                       ELSE UserReturn(call, UserById(idArg))
    /\ UNCHANGED << certVars, users, nextUserId >>

\* createUser({name, email, password, role, companyId}); roleArg is {} when
\* the caller names no role
CreateUser(name, email, password, roleArg) ==
    /\ UserIdle
    /\ userOps' = userOps + 1
    /\ LET call == Queried(BeginUserCall("createUser", {}), "User.findOne")
           existing == { u \in users : u.email = ToLowerCase(email) }
           user == [ id |-> nextUserId,
                     name |-> name,
                     email |-> ToLowerCase(email),
                     password |-> password,
                     role |-> IF roleArg = {} THEN DefaultRole
                              ELSE CHOOSE r \in roleArg : TRUE,
                     companyId |-> Null ]
       IN  IF existing # {}
           THEN /\ userCall' = UserFail(call, EmailRegistered)
                /\ UNCHANGED << users, nextUserId >>
           ELSE /\ userCall' = UserReturn(Queried(call, "User.create"), {user})
                /\ users' = users \cup {user}
                /\ nextUserId' = nextUserId + 1
    /\ UNCHANGED certVars

\* variant of Allowed: the role may be updated directly too
AllowedWithRole == {"name", "password", "role"}

\* updateUser: the keys that can be updated directly
Allowed == {"name", "password"}

\* the updates with the keys that are not allowed dropped
Filtered(updates) == [k \in (DOMAIN updates) \cap Allowed |-> updates[k]]

\* the document with the filtered updates set
WithUpdates(user, filtered) ==
    [f \in DOMAIN user |-> IF f \in DOMAIN filtered THEN filtered[f] ELSE user[f]]

\* updateUser(id, updates): User.findByIdAndUpdate(id, filtered, {new: true})
UpdateUser(idArg, updates) ==
    /\ UserIdle
    /\ userOps' = userOps + 1
    /\ LET call == Queried([BeginUserCall("updateUser", idArg) EXCEPT !.updates = updates],
                           "User.findByIdAndUpdate")
           updated == { WithUpdates(u, Filtered(updates)) : u \in UserById(idArg) }
       IN  /\ users' = (users \ UserById(idArg)) \cup updated
           /\ userCall' = IF updated = {} THEN UserFail(call, UserNotFound)
                          ELSE UserReturn(call, updated)
    /\ UNCHANGED << certVars, nextUserId >>

\* deleteUser(id): User.findByIdAndDelete(id)
DeleteUser(idArg) ==
    /\ UserIdle
    /\ userOps' = userOps + 1
    /\ LET call == Queried(BeginUserCall("deleteUser", idArg), "User.findByIdAndDelete")
       IN  /\ users' = users \ UserById(idArg)
           /\ userCall' = IF UserById(idArg) = {} THEN UserFail(call, UserNotFound)
                          ELSE [UserReturn(call, {}) EXCEPT !.answer = "true"]
    /\ UNCHANGED << certVars, nextUserId >>

\* the service function is entered and issues User.findById(id)
RoleCall(kind, idArg) ==
    [Queried(BeginUserCall(kind, idArg), "User.findById") EXCEPT !.pc = "find"]

\* promoteUserToRegulatorAdmin(id), up to its first await
PromoteUserToRegulatorAdmin(idArg) ==
    /\ UserIdle
    /\ userOps' = userOps + 1
    /\ userCall' = RoleCall("promoteUserToRegulatorAdmin", idArg)
    /\ UNCHANGED << certVars, users, nextUserId >>

\* demoteRegulatorAdmin(id), up to its first await
DemoteRegulatorAdmin(idArg) ==
    /\ UserIdle
    /\ userOps' = userOps + 1
    /\ userCall' = RoleCall("demoteRegulatorAdmin", idArg)
    /\ UNCHANGED << certVars, users, nextUserId >>

\* the handler of a promote or demote request: the guard, then the call of
\* the service function with the userId of the body
HandlerCall(kind, body, message) ==
    IF "findUserById" \notin ServiceExports
    THEN [IdleUserCall EXCEPT
            !.kind = kind, !.handler = TRUE, !.body = body, !.before = users,
            !.pc = "done",
            !.response = {[ status |-> StatusBadRequest, success |-> FALSE,
                            message |-> message, data |-> {} ]}]
    ELSE [RoleCall(kind, body) EXCEPT !.handler = TRUE, !.body = body]

\* POST /promote: promoteUserToRegulatorAdmin(req, res, next)
PromoteUserToRegulatorAdminHandler(body) ==
    /\ UserIdle
    /\ userOps' = userOps + 1
    /\ userCall' = HandlerCall("promoteUserToRegulatorAdmin", body,
                               "userId and regulatorId are required")
    /\ UNCHANGED << certVars, users, nextUserId >>

\* POST /demote: demoteRegulatorAdmin(req, res, next)
DemoteRegulatorAdminHandler(body) ==
    /\ UserIdle
    /\ userOps' = userOps + 1
    /\ userCall' = HandlerCall("demoteRegulatorAdmin", body, "userId is required")
    /\ UNCHANGED << certVars, users, nextUserId >>

\* the role each of the two functions assigns
AssignedRole(kind) ==
    IF kind = "promoteUserToRegulatorAdmin" THEN "regulator_admin" ELSE "company_admin"

\* User.findById resolved: no user throws, else user.role is assigned and
\* user.save() is called
OnUserFound(call, found) ==
    IF found = {} THEN UserFail(call, UserNotFound)
    ELSE [Queried(call, "save") EXCEPT
            !.pc = "save",
            !.found = { [u EXCEPT !.role = AssignedRole(call.kind)] : u \in found }]

FindUserForRole ==
    /\ userCall.pc = "find"
    /\ userCall' = OnUserFound(userCall, UserById(userCall.id))
    /\ UNCHANGED << certVars, users, nextUserId, userOps >>

\* variant of Saved: the role is written to every User of the company
SavedForCompany(doc) ==
    { IF u.companyId = doc.companyId THEN [u EXCEPT !.role = doc.role] ELSE u : u \in users }

\* user.save(): the modified path, role, is written to the document's User
Saved(doc) ==
    { IF u.id = doc.id THEN [u EXCEPT !.role = doc.role] ELSE u : u \in users }

\* user.save() resolved and the function returns the user
SaveUser ==
    /\ userCall.pc = "save"
    /\ \E doc \in userCall.found :
          /\ users' = Saved(doc)
          /\ userCall' = UserReturn(userCall, {doc})
    /\ UNCHANGED << certVars, nextUserId, userOps >>

\* the request is over
ReturnUserCall ==
    /\ userCall.pc = "done"
    /\ userCall' = IdleUserCall
    /\ UNCHANGED << certVars, users, nextUserId, userOps >>

NextUsers ==
    \/ \E name \in Names, email \in Emails, password \in Passwords,
          roleArg \in {{}} \cup { {r} : r \in Roles } :
          CreateUser(name, email, password, roleArg)
    \/ \E idArg \in UserIdArgs : FindUserById(idArg)
    \/ \E idArg \in UserIdArgs, updates \in UpdateObjects : UpdateUser(idArg, updates)
    \/ \E idArg \in UserIdArgs : DeleteUser(idArg)
    \/ \E idArg \in UserIdArgs : PromoteUserToRegulatorAdmin(idArg)
    \/ \E idArg \in UserIdArgs : DemoteRegulatorAdmin(idArg)
    \/ \E body \in UserIdArgs : PromoteUserToRegulatorAdminHandler(body)
    \/ \E body \in UserIdArgs : DemoteRegulatorAdminHandler(body)
    \/ FindUserForRole
    \/ SaveUser
    \/ ReturnUserCall

SpecUsers == Init /\ [][NextUsers]_vars

(* ============================ properties =============================== *)

Started(c) == calls[c].pc # "idle"

Finished(c) == calls[c].pc = "done"

Rejected(c) == calls[c].pc = "done" /\ calls[c].outcome = "rejected"

\* the call has written nothing to the three collections
DbUntouched(c) ==
    /\ certs = calls[c].before.certs
    /\ txs = calls[c].before.txs
    /\ events = calls[c].before.events

\* the transaction hash a receipt carries, in its hash or its txHash field
CarriedTxHashes(receipt) == {receipt.hash, receipt.txHash} \ {Undefined}

SuccessReceipt(c) ==
    /\ calls[c].storeResult = "receipt"
    /\ calls[c].receipt.status = "SUCCESS"
    /\ CarriedTxHashes(calls[c].receipt) # {}

\* the documents the call added to a collection
NewCerts(c) == certs \ calls[c].before.certs

NewTxs(c) == txs \ calls[c].before.txs

NewEvents(c) == events \ calls[c].before.events

(* ---- C1 ---- *)

\* C1: a createCertificate call in which certificateName, subject,
\* metadataHash or requestedByUserId is missing is rejected with the
\* validation failure of status 400, and has invoked no ledger operation
\* and no database operation.
C1_MissingFieldRejected ==
    \A c \in CallIds :
        ( /\ Started(c)
          /\ \E f \in {"certificateName", "subject", "metadataHash", "requestedByUserId"} :
                f \notin calls[c].input.present )
        => /\ Rejected(c)
           /\ calls[c].error = "Missing required fields"
           /\ StatusCode(calls[c].error) = 400
           /\ calls[c].trace = << >>
           /\ DbUntouched(c)

\* a call that lacks only requestedByUserId has been answered
C1_Witness ==
    \E c \in CallIds :
        /\ Finished(c)
        /\ calls[c].input.present =
              {"certificateName", "companyId", "subject", "metadataHash"}

(* ---- C2 ---- *)

LacksOnlyCompanyId(c) ==
    /\ Started(c)
    /\ calls[c].input.present =
          {"certificateName", "subject", "metadataHash", "requestedByUserId"}

\* C2 as stated: a call in which only companyId is absent is rejected with
\* the validation failure and invokes nothing (readDocument is not called).
C2_CompanyIdRequired ==
    \A c \in CallIds :
        LacksOnlyCompanyId(c)
        => /\ Rejected(c)
           /\ calls[c].error = "Missing required fields"
           /\ calls[c].trace = << >>

\* C2 as amended: companyId is not among the inputs createCertificate
\* validates; a call in which only companyId is absent is never rejected
\* with the validation failure, and the first thing it does is to call
\* readDocument.
C2_CompanyIdNotValidated ==
    \A c \in CallIds :
        LacksOnlyCompanyId(c)
        => /\ calls[c].error # "Missing required fields"
           /\ \/ calls[c].pc = "check" /\ calls[c].trace = << >>
              \/ Len(calls[c].trace) >= 1 /\ calls[c].trace[1] = "readDocument"

\* a call without companyId has called readDocument
C2_Witness ==
    \E c \in CallIds :
        /\ LacksOnlyCompanyId(c)
        /\ Count(calls[c].trace, "readDocument") = 1

(* ---- C3 ---- *)

\* C3: when the duplicate check readDocument(metadataHash) returns a
\* non-null value, the call is rejected, storeDocument is never invoked in
\* it, and no Certificate, TransactionRecord or AuditEvent is persisted.
C3_DuplicateNotStored ==
    \A c \in CallIds :
        calls[c].readResult = "value"
        => /\ Rejected(c)
           /\ Count(calls[c].trace, "storeDocument") = 0
           /\ calls[c].trace = << "readDocument" >>
           /\ calls[c].cert = {}
           /\ DbUntouched(c)

\* a call found its metadataHash on chain, with a Certificate in the database
C3_Witness ==
    \E c \in CallIds :
        /\ calls[c].readResult = "value"
        /\ Finished(c)
        /\ certs # {}

(* ---- C4 ---- *)

\* C4: when readDocument returns a non-null value the caller receives the
\* conflict failure, with a conflict (4xx) status code that differs from the
\* status code of the wrapped failure raised when readDocument throws.
C4_ConflictStatusDistinct ==
    \A c \in CallIds :
        (Finished(c) /\ calls[c].readResult = "value")
        => /\ calls[c].error =
                "A document with the same metadataHash already exists on chain"
           /\ StatusCode(calls[c].error) \in 400..499
           /\ StatusCode(calls[c].error) #
                StatusCode("Failed to verify existing document on chain")

(* ---- C5 ---- *)

LedgerStoreFailed(c) ==
    \/ calls[c].storeResult = "throw"
    \/ /\ calls[c].storeResult = "receipt"
       /\ \/ calls[c].receipt.status # "SUCCESS"
          \/ CarriedTxHashes(calls[c].receipt) = {}

\* C5: if readDocument throws, or storeDocument throws, or resolves with a
\* non-success status, or resolves with success but without a transaction
\* hash, the call is rejected and writes no Certificate, TransactionRecord
\* or AuditEvent; when readDocument throws, storeDocument is not invoked.
C5_LedgerFailureWritesNothing ==
    \A c \in CallIds :
        /\ (calls[c].readResult = "throw" \/ LedgerStoreFailed(c))
           => /\ Rejected(c)
              /\ calls[c].cert = {}
              /\ DbUntouched(c)
              /\ \A op \in {"Certificate.create", "Web3Tx.create", "CertificateEvent.create"} :
                    Count(calls[c].trace, op) = 0
        /\ calls[c].readResult = "throw"
           => Count(calls[c].trace, "storeDocument") = 0

\* a call got a SUCCESS receipt that carries no transaction hash
C5_Witness ==
    \E c \in CallIds :
        /\ Finished(c)
        /\ calls[c].storeResult = "receipt"
        /\ calls[c].receipt.status = "SUCCESS"
        /\ CarriedTxHashes(calls[c].receipt) = {}

(* ---- C6 ---- *)

\* readDocument returned null and storeDocument resolved with status
\* SUCCESS and a transaction hash
LedgerAccepted(c) ==
    /\ calls[c].readResult = "null"
    /\ SuccessReceipt(c)

\* the call leaves exactly one new Certificate, issued under the receipt's
\* transaction hash, and with both secondary writes succeeding exactly one
\* TransactionRecord and one 'issued' AuditEvent that reference it
IssuedAsReceipted(c) ==
    /\ Cardinality(NewCerts(c)) = 1
    /\ Count(calls[c].trace, "Certificate.create") = 1
    /\ \A x \in NewCerts(c) :
          /\ x.status = "issued"
          /\ x.txHashIssue \in CarriedTxHashes(calls[c].receipt)
          /\ x.metadataHash = calls[c].input.metadataHash
          /\ calls[c].cert = {x.id}
          /\ (calls[c].txWrite = "ok" /\ calls[c].eventWrite = "ok")
             => /\ Cardinality(NewTxs(c)) = 1
                /\ Cardinality(NewEvents(c)) = 1
                /\ \A t \in NewTxs(c) :
                      /\ t.txHash \in CarriedTxHashes(calls[c].receipt)
                      /\ t.certificateId = x.id
                /\ \A e \in NewEvents(c) :
                      /\ e.type = "issued"
                      /\ e.certificateId = x.id

C7_CertificateHasReceipt ==
    \A x \in certs :
        [metadataHash |-> x.metadataHash, txHash |-> x.txHashIssue] \in receipts

\* a Certificate exists, and next to it a hash that is on chain without a
\* Certificate (its receipt carried no hash, or its Certificate write failed)
C7_Witness ==
    /\ certs # {}
    /\ \E h \in ledger : \A x \in certs : x.metadataHash # h

(* ---- C8 ---- *)

\* C8: if the Certificate write fails after a successful ledger receipt,
\* the call is rejected with the database's own failure; the write is not
\* tried again, and neither the TransactionRecord write nor the AuditEvent
\* write is attempted.
C8_CertificateWriteFailurePropagates ==
    \A c \in CallIds :
        calls[c].certWrite = "failed"
        => /\ Rejected(c)
           /\ calls[c].error = PersistenceError
           /\ calls[c].error \notin AppErrors
           /\ Count(calls[c].trace, "Certificate.create") = 1
           /\ Count(calls[c].trace, "Web3Tx.create") = 0
           /\ Count(calls[c].trace, "CertificateEvent.create") = 0
           /\ DbUntouched(c)

\* the Certificate write of a call failed after a success receipt
C8_Witness ==
    \E c \in CallIds :
        /\ calls[c].certWrite = "failed"
        /\ SuccessReceipt(c)
        /\ calls[c].input.metadataHash \in ledger

(* ---- C9 ---- *)

\* C9: once the Certificate write has succeeded, a failure of the
\* TransactionRecord write or of the AuditEvent write neither rejects the
\* call nor removes the Certificate: the call returns the cert, and the
\* result carries tx if and only if the TransactionRecord write succeeded.
C9_SecondaryFailuresSwallowed ==
    \A c \in CallIds :
        calls[c].certWrite = "ok"
        => /\ calls[c].outcome # "rejected"
           /\ \E x \in certs : calls[c].cert = {x.id}
           /\ Finished(c)
              => /\ calls[c].outcome = "returned"
                 /\ (calls[c].tx # {}) <=> (calls[c].txWrite = "ok")
                 /\ calls[c].tx \subseteq { t.id : t \in txs }

\* a call returned although both secondary writes failed
C9_Witness ==
    \E c \in CallIds :
        /\ Finished(c)
        /\ calls[c].txWrite = "failed"
        /\ calls[c].eventWrite = "failed"

(* ---- C10 ---- *)

\* the order of the collaborator calls of one createCertificate call
CreateOrder ==
    << "readDocument", "storeDocument", "Certificate.create",
       "Web3Tx.create", "CertificateEvent.create" >>

IsPrefix(s, t) ==
    /\ Len(s) <= Len(t)
    /\ \A i \in 1..Len(s) : s[i] = t[i]

Last(s) == s[Len(s)]

\* C10: within one call the steps happen in the order readDocument,
\* storeDocument, Certificate write, secondary writes, each invoked at most
\* once and only after the previous one completed successfully; after a
\* failed ledger call the request ends in failure with no further call.
C10_SequentialNoRetry ==
    \A c \in CallIds :
        /\ IsPrefix(calls[c].trace, CreateOrder)
        /\ Count(calls[c].trace, "storeDocument") >= 1
           => calls[c].readResult = "null"
        /\ Count(calls[c].trace, "Certificate.create") >= 1
           => SuccessReceipt(c)
        /\ Count(calls[c].trace, "Web3Tx.create") >= 1
           => calls[c].certWrite = "ok"
        /\ Count(calls[c].trace, "CertificateEvent.create") >= 1
           => calls[c].txWrite # "none"
        /\ calls[c].readResult \in {"throw", "value"}
           => Rejected(c) /\ Last(calls[c].trace) = "readDocument"
        /\ LedgerStoreFailed(c)
           => Rejected(c) /\ Last(calls[c].trace) = "storeDocument"

\* a call went through all five steps; another one ended at a store call
\* that threw
C10_Witness ==
    \E c \in CallIds :
        /\ calls[c].storeResult = "throw"
        /\ Finished(c)
        /\ events # {}

(* ---- C11 ---- *)

SameHashInFlight(c, d) ==
    /\ c # d
    /\ calls[c].input.metadataHash = calls[d].input.metadataHash

\* C11: no lock separates the duplicate check from the store.  While one
\* call has seen readDocument return null and has not stored yet, another
\* call with the same metadataHash can still see readDocument return null;
\* and two calls that both saw null can both invoke storeDocument.
C11_CheckAndStoreNotAtomic ==
    \A c, d \in CallIds :
        SameHashInFlight(c, d)
        => /\ ( /\ calls[c].pc = "store"
                /\ calls[d].pc = "check"
                /\ calls[c].input.metadataHash \notin ledger )
              => ENABLED (CheckExisting(d) /\ calls'[d].pc = "store")
           /\ (calls[c].pc = "store" /\ calls[d].pc = "store")
              => ENABLED StoreOnChain(c) /\ ENABLED StoreOnChain(d)

\* two calls with the same metadataHash both saw null and both invoked
\* storeDocument, and both got a SUCCESS receipt
C11_Witness ==
    \E c, d \in CallIds :
        /\ SameHashInFlight(c, d)
        /\ calls[c].readResult = "null" /\ calls[d].readResult = "null"
        /\ Count(calls[c].trace, "storeDocument") = 1
        /\ Count(calls[d].trace, "storeDocument") = 1
        /\ SuccessReceipt(c) /\ SuccessReceipt(d)

(* ---- C12 ---- *)

CheckDone == opCall.kind = "checkCertificateIssued" /\ opCall.pc = "done"

AdminDone ==
    opCall.kind \in {"initContract", "whitelistAddress"} /\ opCall.pc = "done"

\* C18: initContract() and whitelistAddress(address) return the receipt of
\* the ledger operation.  If the ledger operation fails the call fails and
\* no TransactionRecord is written; if persisting the TransactionRecord
\* fails the call still returns the receipt.
C18_AdminReturnsReceipt ==
    AdminDone
    => /\ opCall.answers.ledger = "throw"
          => /\ opCall.outcome = "rejected"
             /\ opCall.error = LedgerError
             /\ Count(opCall.trace, "Web3Tx.create") = 0
             /\ txs = opCall.before.txs
       /\ opCall.answers.ledger = "receipt"
          => /\ opCall.outcome = "returned"
             /\ opCall.receipt = AdminReceipt(opCall.kind)
             /\ Count(opCall.trace, "Web3Tx.create") = 1
             /\ opCall.answers.tx = "fail" => txs = opCall.before.txs
             /\ opCall.answers.tx = "ok"
                => \E t \in txs \ opCall.before.txs :
                     /\ txs \ opCall.before.txs = {t}
                     /\ t.txHash = opCall.receipt.hash
                     /\ t.certificateId = NoCertificate

\* whitelistAddress returned the receipt although Web3Tx.create failed,
\* after an earlier admin call had its receipt persisted
C18_Witness ==
    /\ AdminDone
    /\ opCall.kind = "whitelistAddress"
    /\ opCall.address \in Addresses
    /\ opCall.answers.tx = "fail"
    /\ opCall.outcome = "returned"
    /\ opCall.receipt.hash = "0xwhitelist"
    /\ txs # {}

(* ---- C13 ---- *)

OpDone(kind) == opCall.kind = kind /\ opCall.pc = "done"

\* the call in opCall found the collections and files as they are now
OpChangedNothing ==
    /\ certs = opCall.before.certs
    /\ txs = opCall.before.txs
    /\ events = opCall.before.events
    /\ files = opCall.before.files

\* the id the caller passed was the id of no Certificate
IdUnknown == \A cert \in opCall.before.certs : cert.id # opCall.id

\* C13: getCertificateById, updateCertificate and deleteCertificate called
\* with an id that is the id of no Certificate are rejected with the
\* not-found failure (404) after the lookup, and nothing is created,
\* updated or deleted and no file is looked at or removed.
C13_UnknownIdNotFound ==
    \A kind \in {"getCertificateById", "updateCertificate", "deleteCertificate"} :
        (OpDone(kind) /\ IdUnknown)
        => /\ opCall.outcome = "rejected"
           /\ opCall.error = NotFound
           /\ OpStatusCode(opCall.error) = 404
           /\ opCall.trace = << "Certificate.findById" >>
           /\ OpChangedNothing

\* deleteCertificate was rejected for an unknown id while a Certificate
\* with a stored file and records of its own exists
C13_Witness ==
    /\ OpDone("deleteCertificate")
    /\ IdUnknown
    /\ opCall.outcome = "rejected"
    /\ \E cert \in certs :
         /\ cert.path \in files
         /\ Referencing(events, cert.id) # {}

(* ---- C14 ---- *)

\* the update in opCall replaces the stored file of the Certificate
ReplacesFile ==
    /\ opCall.kind = "updateCertificate"
    /\ opCall.found # {}
    /\ ReplacedPath(opCall) # {}

\* C14: when updateCertificate replaces the stored file, the old path is
\* looked at and removed only after findByIdAndUpdate has succeeded and
\* the Certificate carries the new path; only the old file is removed; and
\* when removing it throws, the call still returns the updated Certificate.
C14_OldFileRemovedAfterUpdate ==
    opCall.kind = "updateCertificate"
    => /\ ( \/ Count(opCall.trace, "existsSync") > 0
            \/ Count(opCall.trace, "unlinkSync") > 0
            \/ files # opCall.before.files )
          => /\ ReplacesFile
             /\ opCall.answers.write = "ok"
             /\ opCall.certificate \subseteq certs
             /\ \A cert \in opCall.certificate : cert.path = opCall.newPath
             /\ opCall.trace[2] = "Certificate.findByIdAndUpdate"
       /\ (opCall.pc = "done" /\ ReplacesFile /\ opCall.answers.write = "ok")
          => /\ opCall.outcome = "returned"
             /\ opCall.certificate =
                    {UpdatedDoc(CHOOSE c \in opCall.found : TRUE, opCall.newPath)}
             /\ Count(opCall.trace, "existsSync") = 1
             /\ opCall.answers.unlink = "ok"
                => files = opCall.before.files \ ReplacedPath(opCall)
             /\ opCall.answers.unlink \in {"throw", "missing"}
                => files = opCall.before.files

\* an update replaced '/tmp/old' by '/tmp/new', removing the old file
\* threw, and the call returned the Certificate with the new path
C14_Witness ==
    /\ OpDone("updateCertificate")
    /\ ReplacesFile
    /\ opCall.answers.unlink = "throw"
    /\ opCall.outcome = "returned"
    /\ ReplacedPath(opCall) \subseteq files
    /\ ReplacedPath(opCall) # {opCall.newPath}
    /\ \E cert \in certs : cert.id = opCall.id /\ cert.path = opCall.newPath

(* ---- C15 ---- *)

UpdateApplied == OpDone("updateCertificate") /\ opCall.answers.write = "ok"

\* C15: an updateCertificate whose database update succeeded calls
\* CertificateEvent.create once.  When that write succeeds exactly one
\* AuditEvent is added, of type 'comment' with details.action 'updated',
\* referencing the Certificate; when it fails no AuditEvent is added.
\* Either way the call returns the updated Certificate and the update
\* stays applied.
C15_UpdateAddsOneEvent ==
    UpdateApplied
    => /\ opCall.outcome = "returned"
       /\ opCall.certificate =
              {UpdatedDoc(CHOOSE c \in opCall.found : TRUE, opCall.newPath)}
       /\ opCall.certificate \subseteq certs
       /\ Count(opCall.trace, "CertificateEvent.create") = 1
       /\ opCall.before.events \subseteq events
       /\ opCall.answers.event = "ok"
          => \E e \in events \ opCall.before.events :
               /\ events \ opCall.before.events = {e}
               /\ e.type = "comment"
               /\ e.action = "updated"
               /\ e.certificateId = opCall.id
       /\ opCall.answers.event = "fail" => events = opCall.before.events

\* an update returned the updated Certificate although its AuditEvent
\* could not be written, after an earlier update had written one
C15_Witness ==
    /\ UpdateApplied
    /\ opCall.answers.event = "fail"
    /\ opCall.outcome = "returned"
    /\ \E cert \in certs : cert.id = opCall.id /\ cert.certificateName = "Updated"
    /\ \E e \in events : e.type = "comment" /\ e.certificateId = opCall.id

(* ---- C16 ---- *)

Deleted == OpDone("deleteCertificate") /\ opCall.outcome = "returned"

RecordsDeleted ==
    /\ opCall.answers.write = "ok"
    /\ FindById(opCall.id) = {}
    /\ Referencing(events, opCall.id) = {}
    /\ Referencing(txs, opCall.id) = {}

\* C17: deleteCertificate looks at and removes the stored file only after
\* the Certificate and its records are deleted.  filesDeleted is 1 exactly
\* when the Certificate has a storage path, the file existed and removing
\* it succeeded; without a storage path, with the file missing (removal is
\* not attempted) or with the removal throwing, filesDeleted is 0, the
\* records are deleted all the same and the call returns without error.
C17_FileRemovedLast ==
    (opCall.kind = "deleteCertificate" /\ opCall.found # {})
    => /\ ( \/ Count(opCall.trace, "existsSync") > 0
            \/ Count(opCall.trace, "unlinkSync") > 0
            \/ files # opCall.before.files )
          => RecordsDeleted
       /\ opCall.pc = "done"
          => /\ opCall.outcome = "returned"
             /\ RecordsDeleted
             /\ opCall.counts.certificate = 1
             /\ opCall.counts.filesDeleted \in {0, 1}
             /\ opCall.counts.filesDeleted = 1
                <=> /\ StoredPath(opCall) # {}
                    /\ StoredPath(opCall) \subseteq opCall.before.files
                    /\ opCall.answers.unlink = "ok"
             /\ opCall.counts.filesDeleted = 1
                => files = opCall.before.files \ StoredPath(opCall)
             /\ opCall.counts.filesDeleted = 0 => files = opCall.before.files
             /\ StoredPath(opCall) = {}
                => /\ Count(opCall.trace, "existsSync") = 0
                   /\ Count(opCall.trace, "unlinkSync") = 0
             /\ ~(StoredPath(opCall) \subseteq opCall.before.files)
                => Count(opCall.trace, "unlinkSync") = 0

\* removing the stored file of a deleted Certificate threw: the file is
\* still there, filesDeleted is 0 and the records are gone
C17_Witness ==
    /\ Deleted
    /\ opCall.answers.unlink = "throw"
    /\ opCall.counts.filesDeleted = 0
    /\ opCall.counts.certificate = 1
    /\ opCall.counts.events >= 1
    /\ StoredPath(opCall) \subseteq files
    /\ StoredPath(opCall) # {}

(* ---- C19 ---- *)

CertificateIds == { cert.id : cert \in certs }

DeleteEventsStep ==
    /\ opCall.kind = "deleteCertificate"
    /\ opCall.pc = "deleteEvents"
    /\ events' = events \ Referencing(events, opCall.id)

\* C20: AuditEvents are append-only.  Every step of createCertificate and
\* updateCertificate, and of every operation but deleteCertificate, leaves
\* each AuditEvent there is in the collection, unchanged; AuditEvents
\* disappear only in deleteCertificate's deletion of the events of its
\* Certificate.
C20_EventsAppendOnly ==
    [][ events \subseteq events' \/ DeleteEventsStep ]_vars

\* createCertificate and updateCertificate each added an AuditEvent to a
\* Certificate, and deleteCertificate removed the two
C20_Witness ==
    /\ Deleted
    /\ opCall.counts.events = 2
    /\ \E e \in opCall.before.events : e.type = "issued" /\ e.certificateId = opCall.id
    /\ \E e \in opCall.before.events : e.type = "comment" /\ e.certificateId = opCall.id
    /\ events = {}

(* ---- C22 ---- *)

\* the step in which storeDocument resolves SUCCESS for the call c
StoreSucceeds(c) ==
    /\ calls[c].pc = "store"
    /\ calls'[c].storeResult = "receipt"
    /\ calls'[c].receipt.status = "SUCCESS"

\* C22: with calls served one after the other and a ledger that reports a
\* hash once it is stored, storeDocument succeeds only for a metadataHash
\* that is not on the ledger yet, so at most once per metadataHash, and no
\* two Certificates carry the same metadataHash.
C22_AtMostOncePerHash ==
    /\ [][ \A c \in CallIds :
             StoreSucceeds(c) => calls[c].input.metadataHash \notin ledger ]_vars
    /\ [](\A a, b \in certs : a.metadataHash = b.metadataHash => a = b)

\* both hashes are stored with a Certificate each, and a further call for
\* one of them was rejected at the duplicate check
C22_Witness ==
    /\ Cardinality(certs) = 2
    /\ \E c \in CallIds :
         /\ Rejected(c)
         /\ calls[c].readResult = "value"
         /\ \E cert \in certs : cert.metadataHash = calls[c].input.metadataHash

(* ---- C23 ---- *)

\* the failures createCertificate returns before storeDocument has given a
\* SUCCESS receipt
EarlyFailures ==
    { "Missing required fields",
      "A document with the same metadataHash already exists on chain",
      "Failed to verify existing document on chain",
      "Blockchain store_document call failed",
      "Blockchain store_document failed" }

\* the failures it returns after a SUCCESS receipt
LateFailures == { "Missing txHash from blockchain receipt", PersistenceError }

\* C23 as stated: a call that returned a failure left the ledger as it
\* found it.
C23_FailureLeavesLedger ==
    \A c \in CallIds : Rejected(c) => ledger = calls[c].before.ledger

\* C23, amended: a call that failed before storeDocument gave a SUCCESS
\* receipt (validation, duplicate, duplicate check threw, store threw,
\* store not successful) left the ledger as it found it.  A call that
\* failed after a SUCCESS receipt (no transaction hash in the receipt, or
\* the Certificate write rejected) has stored its metadataHash: the hash is
\* on the ledger and the duplicate check of a later call does not return
\* null for it.
C23_LedgerAfterFailure ==
    \A c \in CallIds :
        Rejected(c)
        => /\ calls[c].error \in EarlyFailures \cup LateFailures
           /\ calls[c].error \in EarlyFailures
              => /\ ledger = calls[c].before.ledger
                 /\ calls[c].receipt.status # "SUCCESS"
           /\ calls[c].error \in LateFailures
              => /\ calls[c].receipt.status = "SUCCESS"
                 /\ calls[c].input.metadataHash \in ledger \ calls[c].before.ledger
                 /\ "null" \notin ReadOutcomes(calls[c].input.metadataHash)

\* a call is rejected as a duplicate for a metadataHash that has no
\* Certificate: an earlier call stored it and then failed
C23_Witness ==
    \E c \in CallIds :
        /\ Rejected(c)
        /\ calls[c].readResult = "value"
        /\ \A cert \in certs : cert.metadataHash # calls[c].input.metadataHash
        /\ ledger = calls[c].before.ledger

(* ---- C24 ---- *)

\* the TransactionRecord write of the call c was rejected
TxWriteFailed(c) == calls[c].txWrite = "failed"

\* C24: the two secondary writes of createCertificate are independent.
\* After a rejected TransactionRecord write the call goes on to the
\* AuditEvent write and attempts it once; when that write succeeds the
\* 'issued' AuditEvent of the new Certificate exists although the call
\* wrote no TransactionRecord.
C24_EventWrittenWithoutTransaction ==
    \A c \in CallIds :
        TxWriteFailed(c)
        => /\ calls[c].pc \in {"event", "done"}
           /\ NewTxs(c) = {}
           /\ calls[c].pc = "done"
              => /\ calls[c].outcome = "returned"
                 /\ Count(calls[c].trace, "CertificateEvent.create") = 1
                 /\ Last(calls[c].trace) = "CertificateEvent.create"
                 /\ calls[c].eventWrite = "ok"
                    => \E e \in NewEvents(c) :
                         /\ NewEvents(c) = {e}
                         /\ e.type = "issued"
                         /\ e.certificateId \in calls[c].cert
                 /\ calls[c].eventWrite = "failed" => NewEvents(c) = {}

\* the call returned its Certificate with the 'issued' event written and
\* no TransactionRecord for it
C24_Witness ==
    \E c \in CallIds :
        /\ TxWriteFailed(c)
        /\ Finished(c)
        /\ calls[c].eventWrite = "ok"
        /\ \E cert \in NewCerts(c) :
             /\ Referencing(events, cert.id) # {}
             /\ Referencing(txs, cert.id) = {}

(* ---- C25 ---- *)

\* the operations of the Ledger Gateway
LedgerOperations ==
    { "readDocument", "storeDocument", "verifyDocument", "isWhitelisted",
      "initContract", "whitelistAddress" }

CallsNoLedgerOperation(trace) ==
    \A i \in 1..Len(trace) : trace[i] \notin LedgerOperations

\* C25: updateCertificate and deleteCertificate invoke no operation of the
\* Ledger Gateway and leave the ledger as it is.  So the metadataHash of a
\* deleted Certificate is still on the ledger, and a createCertificate for
\* a metadataHash that is on the ledger ends at the duplicate check,
\* rejected, without storeDocument and without a database write.
C25_DeleteKeepsLedger ==
    /\ opCall.kind \in {"updateCertificate", "deleteCertificate"}
       => /\ CallsNoLedgerOperation(opCall.trace)
          /\ ledger = opCall.before.ledger
          /\ \A cert \in opCall.found : cert.metadataHash \in ledger
    /\ \A c \in CallIds :
         ( /\ Started(c)
           /\ calls[c].pc # "check"
           /\ calls[c].input.metadataHash \in calls[c].before.ledger )
         => /\ Rejected(c)
            /\ calls[c].trace = << "readDocument" >>
            /\ DbUntouched(c)

\* the only Certificate written was deleted, and a createCertificate for
\* its metadataHash was rejected at the duplicate check
C25_Witness ==
    /\ nextId > 1
    /\ certs = {}
    /\ opsDone > 0
    /\ \E c \in CallIds :
         /\ Rejected(c)
         /\ calls[c].readResult = "value"
         /\ ledger = {calls[c].input.metadataHash}

(* ---- C21 ---- *)

Listed == OpDone("getAllCertificates") /\ opCall.outcome = "returned"

\* the events of the Certificate with this id
EventsOf(id) == { e \in events : e.certificateId = id }

\* C21: getAllCertificates({page, limit}) returns at most limit items, each
\* a different Certificate matching the filter; total is the number of
\* Certificates matching the filter; currentPage is the page asked for, 1
\* when none was; totalPages is the least number of pages of limit items
\* that hold total items; and the signedBy of an item whose Certificate has
\* events is the actor of the latest of them.
C21_PageOfCertificates ==
    Listed
    => LET items == opCall.certificates
           matching == IF opCall.filter = Undefined THEN certs
                       ELSE { cert \in certs : cert.status = opCall.filter }
       IN  /\ Len(items) <= opCall.limit
           /\ \A i, j \in 1..Len(items) : items[i].id = items[j].id => i = j
           /\ \A i \in 1..Len(items) : \E cert \in matching : cert.id = items[i].id
           /\ opCall.total = Cardinality(matching)
           /\ opCall.page = {} => opCall.currentPage = 1
           /\ \A n \in opCall.page : opCall.currentPage = n
           /\ opCall.totalPages * opCall.limit >= opCall.total
           /\ (opCall.totalPages - 1) * opCall.limit < opCall.total
           /\ opCall.currentPage < opCall.totalPages => Len(items) = opCall.limit
           /\ \A i \in 1..Len(items) :
                EventsOf(items[i].id) # {}
                => \E e \in EventsOf(items[i].id) :
                     /\ items[i].signedBy = e.actor
                     /\ \A f \in EventsOf(items[i].id) : f.id <= e.id

\* page 2 of two Certificates, one per page, was returned: its one item is
\* signed by the actor of the Certificate's issued event
C21_Witness ==
    /\ Listed
    /\ opCall.limit = 1
    /\ opCall.total = 2
    /\ opCall.totalPages = 2
    /\ opCall.currentPage = 2
    /\ Len(opCall.certificates) = 1
    /\ opCall.certificates[1].signedBy = "u1"

(* ---- C26 .. C30: user service ---- *)

UserCallDone(kinds) ==
    userCall.pc = "done" /\ userCall.kind \in kinds /\ userCall.service # {}

RoleCallDone == UserCallDone({"promoteUserToRegulatorAdmin", "demoteRegulatorAdmin"})

\* the User the id named when the request arrived, none for an unknown id
Target == { u \in userCall.before : u.id \in userCall.id }

\* the call was rejected with the failure that carries 'User not found',
\* and the collection is as the request found it
FailedUserNotFound ==
    /\ userCall.outcome = "rejected"
    /\ userCall.error # {}
    /\ \A e \in userCall.error :
          e.statusCode = String("User not found") \/ e.message = String("User not found")
    /\ users = userCall.before

\* C26: promoteUserToRegulatorAdmin(id) sets the role of the User with this
\* id to 'regulator_admin' and demoteRegulatorAdmin(id) sets it to
\* 'company_admin', each with one save that changes no other User and no
\* other field; for an id of no User both fail with 'User not found' and
\* save nothing.  So promoting a regulator_admin changes nothing, and
\* demoting a promoted company_admin makes it a company_admin again.
C26_RoleAssigned ==
    RoleCallDone
    => LET role == IF userCall.kind = "promoteUserToRegulatorAdmin"
                   THEN "regulator_admin" ELSE "company_admin"
       IN  IF Target = {}
           THEN FailedUserNotFound /\ Count(userCall.trace, "save") = 0
           ELSE /\ userCall.outcome = "returned"
                /\ Count(userCall.trace, "save") = 1
                /\ users = { IF u \in Target THEN [u EXCEPT !.role = role] ELSE u :
                             u \in userCall.before }
                /\ userCall.kind = "promoteUserToRegulatorAdmin"
                   /\ (\A u \in Target : u.role = "regulator_admin")
                   => users = userCall.before

\* a company_admin was promoted while the collection held a second User
C26_Witness ==
    /\ RoleCallDone
    /\ userCall.kind = "promoteUserToRegulatorAdmin"
    /\ userCall.outcome = "returned"
    /\ Cardinality(userCall.before) = 2
    /\ \E u \in Target : u.role = "company_admin"
    /\ \E u \in users : u.id \in userCall.id /\ u.role = "regulator_admin"

\* the User with the id of u as the collection holds it now
Current(u) == { v \in users : v.id = u.id }

\* C27: promote and demote leave the role of a super_admin as it is, and
\* demote changes a role only when it is 'regulator_admin'.
C27_SuperAdminKept ==
    RoleCallDone
    => \A u \in userCall.before :
          /\ u.role = "super_admin" => \A v \in Current(u) : v.role = "super_admin"
          /\ userCall.kind = "demoteRegulatorAdmin" /\ u.role # "regulator_admin"
             => \A v \in Current(u) : v.role = u.role

\* C28: the promote and demote handlers answer a body without userId with
\* HTTP 400 'userId is required' and do not call the user service.
C28_MissingUserIdRejected ==
    userCall.handler /\ userCall.pc = "done" /\ userCall.body = {}
    => /\ userCall.service = {}
       /\ userCall.response # {}
       /\ \A r \in userCall.response :
             r.status = 400 /\ r.message = "userId is required"

\* getCompanyById: new AppError(404, 'Company not found')
CompanyNotFound == AppError(Number(404), String("Company not found"))

\* C29: every not-found failure of findUserById, updateUser, promote, demote
\* and deleteUser is an AppError with statusCode 404 and message 'User not
\* found', the form of the company service's 404 'Company not found'.
C29_NotFoundIs404 ==
    /\ UserCallDone({"findUserById", "updateUser", "deleteUser",
                     "promoteUserToRegulatorAdmin", "demoteRegulatorAdmin"})
    /\ Target = {}
    => /\ userCall.outcome = "rejected"
       /\ \A e \in userCall.error :
             /\ e.statusCode = CompanyNotFound.statusCode
             /\ e.message = String("User not found")

\* C30: updateUser(id, updates) sets the name and the password that updates
\* carries on the User with this id and changes nothing else: every other
\* key of updates is dropped, every other User is kept; for an id of no
\* User it fails with 'User not found'.
C30_OnlyNameAndPassword ==
    UserCallDone({"updateUser"})
    => IF Target = {} THEN FailedUserNotFound
       ELSE /\ userCall.outcome = "returned"
            /\ \A u \in userCall.before \ Target : u \in users
            /\ Cardinality(users) = Cardinality(userCall.before)
            /\ \A u \in Target : \E v \in users :
                  /\ v.id = u.id
                  /\ userCall.result = {v}
                  /\ v.name = IF "name" \in DOMAIN userCall.updates
                              THEN userCall.updates.name ELSE u.name
                  /\ v.password = IF "password" \in DOMAIN userCall.updates
                                  THEN userCall.updates.password ELSE u.password
                  /\ v.email = u.email
                  /\ v.role = u.role
                  /\ v.companyId = u.companyId

\* updateUser was given a name, a password, a role and an email for a User
\* that had none of these values, and returned
C30_Witness ==
    /\ UserCallDone({"updateUser"})
    /\ userCall.outcome = "returned"
    /\ DOMAIN userCall.updates = UpdateKeys
    /\ \E u \in Target :
          /\ u.name # NewValue.name
          /\ u.password # NewValue.password
          /\ u.role # NewValue.role
          /\ u.email # NewValue.email
    /\ users # userCall.before

====
